---- MODULE Spec2Model ----
(***************************************************************************)
(* ProcPortManager: the safe process-tree termination of                   *)
(* modules/process_manager.py (terminate_process_tree), the process        *)
(* snapshot (fetch_processes_real_time) and the categories                 *)
(* (categorize_process), against the operating system's process table as   *)
(* psutil exposes it; the port functions of modules/port_manager.py, the   *)
(* thread monitor of modules/monitor.py and the flows of modules/menu.py.  *)
(*                                                                         *)
(* The process table is the environment: a process may exit at any moment  *)
(* (ProcessExit), a signal or a wait may be refused.  The program's        *)
(* functions are sequences of steps, one per call into psutil, so that a   *)
(* process can vanish between any two of them.                             *)
(***************************************************************************)
EXTENDS Integers, Sequences, FiniteSets, TLC

\* Bound of the model: the process table holds the pids 0..MaxPid.
MaxPid == 2

Pids == 0..MaxPid

\* No process handle (Python's None / an unbound local).
NoProc == 0 - 1

VARIABLES
    ppid,        \* process table: parent pid of every pid in 1..MaxPid
    running,     \* process table: the pids of the live processes
    pid,         \* terminate_process_tree: the argument
    pc,          \* terminate_process_tree: position in the function
    parent,      \* terminate_process_tree: local `parent`
    children,    \* terminate_process_tree: local `children`
    all_procs,   \* terminate_process_tree: local `all_procs`
    i,           \* terminate_process_tree: index of the running for-loop
    gone,        \* terminate_process_tree: local `gone`
    alive,       \* terminate_process_tree: local `alive`
    result,      \* terminate_process_tree: local `result`
    log,         \* history: every call into psutil that signals or waits, with its outcome
    spc,         \* fetch_processes_real_time: position in the function
    warmed,      \* fetch_processes_real_time: the processes whose CPU sampling was started
    iter_pids,   \* fetch_processes_real_time: the pids the second process_iter walks
    j,           \* fetch_processes_real_time: index into iter_pids
    cur,         \* fetch_processes_real_time: the process `p` whose entry is being built
    cpu,         \* fetch_processes_real_time: local `cpu`
    procs,       \* fetch_processes_real_time: local `procs`
    vanished,    \* history: the processes that exited during the snapshot before their entry was built
    timeout,     \* terminate_process_tree: the argument `timeout`
    catPid,      \* categorize_process: the argument `pid`
    catName,     \* categorize_process: the argument `name`
    catUsername, \* categorize_process: the argument `username`
    category,    \* categorize_process: the value returned ("" before the call)
    names,       \* process table: the name of every pid (None where it cannot be read)
    filter_name, \* _fetch_matching_processes: the argument
    conns,       \* connection table: what psutil.net_connections(kind='inet') lists
    port,        \* find_processes_using_port / free_port_interactive: `port`
    found,       \* the pids of the handles find_processes_using_port returned
    probe,       \* the status the connect-probe gave for `port` ("" before it)
    mpc,         \* main_menu: position in the flow of the chosen entry
    typed,       \* history: what the operator typed at the prompts of the flow
    calls,       \* history: the core operations the flow invoked, with their arguments
    range_start, \* show_ports_range / menu entry 8: local `start`
    range_end,   \* show_ports_range / menu entry 8: local `end`
    menu_pid,    \* menu entry 3: local `pid`
    cand,        \* free_port_interactive: index of the loop over the candidates
    lpc,         \* the monitoring loops: position in the loop
    current_page, \* monitor_threads_by_process_name: local `current_page`
    page_size,   \* monitor_threads_by_process_name: the argument, changed by `s`
    total_pages, \* monitor_threads_by_process_name: local `total_pages`
    rows,        \* monitor_threads_by_process_name: the pids of local `procs`
    interrupted, \* history: the position at which an interrupt was delivered ("" if none)
    accepted,    \* history: the commands typed at the "Command: " prompts since the last snapshot
    unborn,      \* process table: the pids no process has had yet
    spawned,     \* history: the processes created after the children of the root were enumerated
    earlier      \* history: what the calls of terminate_process_tree before the running one reported

termVars == <<pid, timeout, pc, parent, children, all_procs, i, gone, alive, result, log,
              unborn, spawned, earlier>>

snapVars == <<spc, warmed, iter_pids, j, cur, cpu, procs, vanished>>

catVars == <<catPid, catName, catUsername, category>>

fetchVars == <<names, filter_name>>

portVars == <<conns, port, found, probe>>

menuVars == <<mpc, typed, calls, range_start, range_end, menu_pid, cand>>

monVars == <<lpc, current_page, page_size, total_pages, rows, interrupted, accepted>>

\* The variables of the functions other than the two of process_manager.py
\* that work on the process table.
auxVars == <<catVars, fetchVars, portVars, menuVars, monVars>>

vars == <<ppid, running, termVars, snapVars, auxVars>>

----------------------------------------------------------------------------
\* Sequences and sets.

Range(s) == {s[k] : k \in 1..Len(s)}

Min(S) == CHOOSE x \in S : \A y \in S : x <= y

\* list(a_set): psutil.wait_procs and Process.children hand back lists whose
\* order is unspecified; the ascending order of pids stands for it.
RECURSIVE SeqOfSet(_)
SeqOfSet(S) == IF S = {} THEN <<>> ELSE <<Min(S)>> \o SeqOfSet(S \ {Min(S)})

\* [x for x in s if Keep(x)]
RECURSIVE SelectSeqBy(_, _)
SelectSeqBy(s, keep) ==
    IF s = <<>> THEN <<>>
    ELSE (IF Head(s) \in keep THEN <<Head(s)>> ELSE <<>>) \o SelectSeqBy(Tail(s), keep)

\* The elements as often as they are listed.
KeptAsListed(s) == s

\* list(dict.fromkeys(s)): the first occurrence of every element, in order.
RECURSIVE DictFromKeys(_)
DictFromKeys(s) ==
    IF s = <<>> THEN <<>>
    ELSE LET front == DictFromKeys(SubSeq(s, 1, Len(s) - 1))
             last  == s[Len(s)]
         IN IF last \in Range(front) THEN front ELSE Append(front, last)

\* Python truthiness of a pid (`if x`, `if pid`): 0 and None are false.
Truthy(x) == x # 0 /\ x # NoProc

----------------------------------------------------------------------------
\* The process table.

Running == running

\* Process.children(recursive=True): the live processes reached from r through
\* live parents.
\* Every other live process of the table, whatever its parent.
AllOtherProcesses(r) == Running \ {r}

RECURSIVE ChildrenRecursive(_)
ChildrenRecursive(r) ==
    LET direct == {c \in Running \ {0} : ppid[c] = r}
    IN direct \cup UNION {ChildrenRecursive(c) : c \in direct}

\* A pid that resolves whether or not its process is gone.
ResolvesAlways(p) == {"ok", "AccessDenied"}

\* The outcomes psutil.Process(p) can have.
ResolveOutcomes(p) ==
    IF p \in Running THEN {"ok", "AccessDenied"} ELSE {"NoSuchProcess"}

\* The outcomes Process.terminate() and Process.kill() can have: pid 0 is never
\* signalled (psutil refuses), a vanished process raises NoSuchProcess, a live
\* one takes the signal or refuses access.
SignalOutcomes(p) ==
    IF p = 0 THEN {"AccessDenied"}
    ELSE IF p \in Running THEN {"ok", "AccessDenied"}
    ELSE {"NoSuchProcess"}

\* The outcomes psutil.wait_procs can have (a wait on a protected process may
\* be refused).
WaitOutcomes == {"ok", "AccessDenied"}

\* One entry of the history: the call, the process it is about, its outcome
\* and, for a wait, the processes it was handed, its timeout and the waited
\* processes that were no longer running when it ended.
Event(op, p, out) ==
    [op |-> op, pid |-> p, out |-> out, dead |-> {}, waited |-> <<>>, timeout |-> 0]

WaitEvent(op, out, waited, t) ==
    [op |-> op, pid |-> NoProc, out |-> out, dead |-> Range(waited) \ Running,
     waited |-> waited, timeout |-> t]

----------------------------------------------------------------------------
\* Exception handlers.

\* A handler that lets access errors through.
ExceptVanishedOnly == {"NoSuchProcess"}

\* `except Exception`: every error psutil and the built-ins raise
\* (KeyboardInterrupt is no Exception).
ExceptException == {"NoSuchProcess", "AccessDenied", "TypeError", "ValueError", "OverflowError", "AttributeError"}

\* A handler that catches nothing.
ExceptNothing == {}

\* `except psutil.NoSuchProcess`
ExceptNoSuchProcess == {"NoSuchProcess"}

Failed(p, msg) == [pid |-> p, msg |-> msg]

EmptyResult == [terminated |-> <<>>, killed |-> <<>>, failed |-> <<>>]

\* The inaccessible root left unrecorded.
CannotAccessUnrecorded(r, p) == r

\* line 106: result["failed"].append((pid, f"cannot access process: {e}"))
CannotAccess(r, p) == [r EXCEPT !.failed = Append(@, Failed(p, "cannot access process"))]

\* Every process of the tree recorded as terminated, gone or not.
RecordEveryone(r, g) == [r EXCEPT !.terminated = @ \o all_procs]

\* lines 137-141: for p in gone: result["terminated"].append(p.pid)
RecordGone(r, g) == [r EXCEPT !.terminated = @ \o g]

----------------------------------------------------------------------------
\* terminate_process_tree(pid, timeout)

FrameUnchanged == UNCHANGED <<ppid, pid, timeout, unborn, spawned, earlier, snapVars, auxVars>>

\* What is remembered of the calls that returned before the running one:
\* how many they are, the roots they reported as terminated or killed, and
\* all the pids they reported as terminated or killed.
NoEarlier == [calls |-> 0, roots |-> {}, reported |-> {}]

\* No process is created during the call, and it is the first call.
NoSpawnNoEarlier ==
    /\ unborn = {}
    /\ spawned = {}
    /\ earlier = NoEarlier

\* lines 100-107: result = {...}; parent = psutil.Process(pid)
Resolve ==
    /\ pc = "resolve"
    /\ \E out \in ResolveOutcomes(pid) :
         /\ log' = Append(log, Event("resolve", pid, out))
         /\ IF out = "ok"
            THEN /\ parent' = pid
                 /\ pc' = "enumerate"
                 /\ result' = result
            ELSE IF out \in ExceptNoSuchProcess
            THEN /\ pc' = "done"
                 /\ UNCHANGED <<parent, result>>
            ELSE IF out \in ExceptException
            THEN /\ result' = CannotAccess(result, pid)
                 /\ pc' = "done"
                 /\ parent' = parent
            ELSE /\ pc' = "raised"
                 /\ UNCHANGED <<parent, result>>
    /\ UNCHANGED <<running, children, all_procs, i, gone, alive>>
    /\ FrameUnchanged

\* lines 109-115: children = parent.children(recursive=True); all_procs = []
Enumerate ==
    /\ pc = "enumerate"
    /\ \E out \in ResolveOutcomes(parent) :
         /\ log' = Append(log, Event("children", parent, out))
         /\ IF out = "ok"
            THEN /\ children' = SeqOfSet(ChildrenRecursive(parent))
                 /\ pc' = "build"
            ELSE IF out \in ExceptException
            THEN /\ children' = <<>>
                 /\ pc' = "build"
            ELSE /\ children' = children
                 /\ pc' = "raised"
    /\ all_procs' = <<>>
    /\ i' = 1
    /\ UNCHANGED <<running, parent, gone, alive, result>>
    /\ FrameUnchanged

\* lines 116-120: one turn of `for c in children`: psutil.Process(c.pid)
ResolveChild ==
    /\ pc = "build"
    /\ i <= Len(children)
    /\ LET c == children[i]
       IN IF c \in Running
          THEN all_procs' = Append(all_procs, c)
          ELSE all_procs' = all_procs
    /\ i' = i + 1
    /\ UNCHANGED <<running, parent, children, gone, alive, result, log, pc>>
    /\ FrameUnchanged

\* The root ahead of its children.
RootFirst(resolved, root) == <<root>> \o resolved

\* The order of all_procs: the resolved children, then the root.
RootLast(resolved, root) == Append(resolved, root)

\* line 121: all_procs.append(parent)
AppendParent ==
    /\ pc = "build"
    /\ i > Len(children)
    /\ all_procs' = RootLast(all_procs, parent)
    /\ i' = 1
    /\ pc' = "terminate"
    /\ UNCHANGED <<running, parent, children, gone, alive, result, log>>
    /\ FrameUnchanged

\* lines 124-128: one turn of `for p in all_procs`: p.terminate()
Terminate ==
    /\ pc = "terminate"
    /\ i <= Len(all_procs)
    /\ LET p == all_procs[i]
       IN \E out \in SignalOutcomes(p) :
            /\ log' = Append(log, Event("terminate", p, out))
            /\ IF out = "ok"
               THEN /\ result' = result
                    /\ pc' = IF i = Len(all_procs) THEN "wait" ELSE "terminate"
               ELSE IF out \in ExceptException
               THEN /\ result' = [result EXCEPT !.failed = Append(@, Failed(p, "terminate error"))]
                    /\ pc' = IF i = Len(all_procs) THEN "wait" ELSE "terminate"
               ELSE /\ result' = result
                    /\ pc' = "raised"
    /\ i' = i + 1
    /\ UNCHANGED <<running, parent, children, all_procs, gone, alive>>
    /\ FrameUnchanged

\* The tree of the root as it is when the forced phase starts.
LiveTreeNow(everyone, stillAlive) ==
    SeqOfSet(({parent} \cup ChildrenRecursive(parent)) \cap Running)

\* The processes the forced phase works on: those still alive after the wait.
KillTargets(everyone, stillAlive) == stillAlive

\* Only the processes whose graceful request was delivered.
DeliveredOnly(everyone, failed) ==
    SelectSeqBy(everyone, Pids \ {failed[k].pid : k \in 1..Len(failed)})

\* line 131: the processes handed to the primary wait: all of all_procs,
\* whatever the graceful phase recorded in failed.
WaitedProcs(everyone, failed) == everyone

\* lines 131-144: gone, alive = psutil.wait_procs(all_procs, timeout), which
\* returns when every process is gone or the timeout has run out; the
\* fallback when the wait raises instead (is_running() answers for every
\* process: it raises nothing); terminated += gone; `if alive:`
Wait ==
    /\ pc = "wait"
    /\ \E out \in WaitOutcomes :
         /\ log' = Append(log, WaitEvent("wait1", out, WaitedProcs(all_procs, result.failed), timeout))
         /\ IF out = "ok"
            THEN /\ gone' = SeqOfSet(Range(WaitedProcs(all_procs, result.failed)) \ Running)
                 /\ alive' = KillTargets(all_procs,
                                SeqOfSet(Range(WaitedProcs(all_procs, result.failed)) \cap Running))
            ELSE \* gone = []; alive = [p for p in all_procs if p.is_running()]
                 /\ gone' = <<>>
                 /\ alive' = KillTargets(all_procs, SelectSeqBy(all_procs, Running))
         /\ IF out = "ok" \/ out \in ExceptException
            THEN /\ result' = RecordGone(result, gone')
                 /\ pc' = IF alive' # <<>> THEN "kill" ELSE "clean"
            ELSE /\ result' = result
                 /\ pc' = "raised"
    /\ i' = 1
    /\ UNCHANGED <<running, parent, children, all_procs>>
    /\ FrameUnchanged

\* The vanished process counted as forcibly killed.
VanishedAsKilled(r, p) == [r EXCEPT !.killed = Append(@, p)]

\* lines 148-149: except psutil.NoSuchProcess: result["terminated"].append(p.pid)
VanishedAtKill(r, p) == [r EXCEPT !.terminated = Append(@, p)]

\* lines 145-151: one turn of `for p in alive`: p.kill()
Kill ==
    /\ pc = "kill"
    /\ i <= Len(alive)
    /\ LET p == alive[i]
       IN \E out \in SignalOutcomes(p) :
            /\ log' = Append(log, Event("kill", p, out))
            /\ IF out = "ok"
               THEN /\ result' = result
                    /\ pc' = IF i = Len(alive) THEN "wait2" ELSE "kill"
               ELSE IF out \in ExceptNoSuchProcess
               THEN /\ result' = VanishedAtKill(result, p)
                    /\ pc' = IF i = Len(alive) THEN "wait2" ELSE "kill"
               ELSE IF out \in ExceptException
               THEN /\ result' = [result EXCEPT !.failed = Append(@, Failed(p, "kill error"))]
                    /\ pc' = IF i = Len(alive) THEN "wait2" ELSE "kill"
               ELSE /\ result' = result
                    /\ pc' = "raised"
    /\ i' = i + 1
    /\ UNCHANGED <<running, parent, children, all_procs, gone, alive>>
    /\ FrameUnchanged

\* [(p, "still alive after kill") for p in s]
RECURSIVE StillAlive(_)
StillAlive(s) ==
    IF s = <<>> THEN <<>>
    ELSE <<Failed(Head(s), "still alive after kill")>> \o StillAlive(Tail(s))

\* line 154: psutil.wait_procs(alive, timeout=3)
SecondaryTimeout == 3

\* lines 153-169: gone2, alive2 = psutil.wait_procs(alive, timeout=3) and the
\* two loops over them; when the wait raises, the loop over `alive` asking
\* is_running() (which answers for every process: it raises nothing).
Wait2 ==
    /\ pc = "wait2"
    /\ \E out \in WaitOutcomes :
         /\ log' = Append(log, WaitEvent("wait2", out, alive, SecondaryTimeout))
         /\ LET gone2  == IF out = "ok"
                          THEN SeqOfSet(Range(alive) \ Running)
                          ELSE SelectSeqBy(alive, Pids \ Running)
                alive2 == IF out = "ok"
                          THEN SeqOfSet(Range(alive) \cap Running)
                          ELSE SelectSeqBy(alive, Running)
                fresh  == SelectSeqBy(gone2, Pids \ Range(result.terminated))
            IN IF out = "ok"
               THEN /\ result' = [result EXCEPT !.killed = @ \o fresh,
                                                !.failed = @ \o StillAlive(alive2)]
                    /\ pc' = "clean"
               ELSE IF out \in ExceptException
               THEN \* the loop takes `alive` in order; killed and failed are
                    \* separate lists, so each keeps the order of `alive`
                    /\ result' = [result EXCEPT !.killed = @ \o fresh,
                                                !.failed = @ \o StillAlive(alive2)]
                    /\ pc' = "clean"
               ELSE /\ result' = result
                    /\ pc' = "raised"
    /\ UNCHANGED <<running, parent, children, all_procs, i, gone, alive>>
    /\ FrameUnchanged

\* [(pid, msg) for pid, msg in failed if pid]
RECURSIVE FailedWithPid(_)
FailedWithPid(s) ==
    IF s = <<>> THEN <<>>
    ELSE (IF Truthy(Head(s).pid) THEN <<Head(s)>> ELSE <<>>) \o FailedWithPid(Tail(s))

\* lines 171-174: the three lists cleaned.
CleanLists(r) ==
    LET t == DictFromKeys(SelectSeqBy(r.terminated, {x \in Pids : Truthy(x)}))
        k == DictFromKeys(SelectSeqBy(r.killed, {x \in Pids : Truthy(x) /\ x \notin Range(t)}))
    IN [terminated |-> t, killed |-> k, failed |-> FailedWithPid(r.failed)]

\* lines 171-176: clean lists; return result
Clean ==
    /\ pc = "clean"
    /\ result' = CleanLists(result)
    /\ pc' = "done"
    /\ UNCHANGED <<running, parent, children, all_procs, i, gone, alive, log>>
    /\ FrameUnchanged

\* The environment: a running process exits.  Pid 0 (the idle process / the
\* kernel) never does.  Exits after the last wait are not observed by the
\* call.
ProcessExit ==
    /\ pc \notin {"clean", "done", "raised"}
    /\ \E p \in Running \ {0} :
         running' = running \ {p}
    /\ UNCHANGED <<ppid, termVars, snapVars, auxVars>>

\* No snapshot is being taken.
SnapIdle ==
    /\ spc = "idle"
    /\ warmed = {}
    /\ iter_pids = <<>>
    /\ j = 1
    /\ cur = NoProc
    /\ cpu = 0
    /\ procs = <<>>
    /\ vanished = {}

\* categorize_process is not being called.
CatIdle ==
    /\ catPid = NoProc
    /\ catName = <<>>
    /\ catUsername = <<>>
    /\ category = ""

\* _fetch_matching_processes is not being called.
FetchIdle ==
    /\ names = [p \in Pids |-> <<>>]
    /\ filter_name = <<>>

\* No port function is being called.
PortIdle ==
    /\ conns = <<>>
    /\ port = NoProc
    /\ found = <<>>
    /\ probe = ""

\* The menu is not running.
MenuIdle ==
    /\ mpc = "idle"
    /\ typed = <<>>
    /\ calls = <<>>
    /\ range_start = NoProc
    /\ range_end = NoProc
    /\ menu_pid = NoProc
    /\ cand = 1

\* monitor.py line 99: page_size: int = 20
DefaultPageSize == 20

\* No monitoring loop is running.
MonIdle ==
    /\ lpc = "idle"
    /\ current_page = 0
    /\ page_size = DefaultPageSize
    /\ total_pages = 1
    /\ rows = <<>>
    /\ interrupted = ""
    /\ accepted = <<>>

\* Only the functions of process_manager.py that work on the process table run.
AuxIdle == CatIdle /\ FetchIdle /\ PortIdle /\ MenuIdle /\ MonIdle

\* line 88: def terminate_process_tree(pid, timeout=5.0); every caller passes 5
\* (menu.py lines 102 and 131, port_manager.py line 84).
DefaultTimeout == 5

\* Every process table in which a child's pid is greater than its parent's.
Forests == {f \in [1..MaxPid -> Pids] : \A p \in 1..MaxPid : f[p] < p}

Init ==
    /\ ppid \in Forests
    /\ running = Pids
    /\ pid \in Pids
    /\ timeout = DefaultTimeout
    /\ pc = "resolve"
    /\ parent = NoProc
    /\ children = <<>>
    /\ all_procs = <<>>
    /\ i = 1
    /\ gone = <<>>
    /\ alive = <<>>
    /\ result = EmptyResult
    /\ log = <<>>
    /\ NoSpawnNoEarlier
    /\ SnapIdle
    /\ AuxIdle

Next ==
    \/ Resolve
    \/ Enumerate
    \/ ResolveChild
    \/ AppendParent
    \/ Terminate
    \/ Wait
    \/ Kill
    \/ Wait2
    \/ Clean
    \/ ProcessExit

Spec == Init /\ [][Next]_vars

\* Bound of the model: terminate_process_tree is called with the timeouts
\* 1..MaxTimeout (seconds).
MaxTimeout == 6

\* terminate_process_tree(pid, timeout) for every timeout, not only the one
\* the callers of this repository pass.
InitTimeout ==
    /\ ppid \in Forests
    /\ running = Pids
    /\ pid \in Pids
    /\ timeout \in 1..MaxTimeout
    /\ pc = "resolve"
    /\ parent = NoProc
    /\ children = <<>>
    /\ all_procs = <<>>
    /\ i = 1
    /\ gone = <<>>
    /\ alive = <<>>
    /\ result = EmptyResult
    /\ log = <<>>
    /\ NoSpawnNoEarlier
    /\ SnapIdle
    /\ AuxIdle

SpecTimeout == InitTimeout /\ [][Next]_vars

\* The environment: a process is created by a running one (pids are not
\* reused).  One created after parent.children() of line 110 has returned is
\* remembered.
Spawn ==
    /\ pc \notin {"clean", "done", "raised"}
    /\ \E p \in unborn :
         /\ ppid[p] \in Running
         /\ running' = running \cup {p}
         /\ unborn' = unborn \ {p}
         /\ spawned' = IF pc \in {"resolve", "enumerate"} THEN spawned ELSE spawned \cup {p}
    /\ UNCHANGED <<ppid, pid, timeout, pc, parent, children, all_procs, i, gone, alive,
                   result, log, earlier, snapVars, auxVars>>

\* terminate_process_tree(pid, timeout) while processes are created: some
\* pids of the table have no process yet.
InitSpawn ==
    /\ ppid \in Forests
    /\ unborn \in SUBSET (1..MaxPid)
    /\ running = Pids \ unborn
    /\ pid \in Pids
    /\ timeout = DefaultTimeout
    /\ pc = "resolve"
    /\ parent = NoProc
    /\ children = <<>>
    /\ all_procs = <<>>
    /\ i = 1
    /\ gone = <<>>
    /\ alive = <<>>
    /\ result = EmptyResult
    /\ log = <<>>
    /\ spawned = {}
    /\ earlier = NoEarlier
    /\ SnapIdle
    /\ AuxIdle

NextSpawn ==
    \/ Next
    \/ Spawn

SpecSpawn == InitSpawn /\ [][NextSpawn]_vars

\* Bound of the model: terminate_process_tree is called at most MaxCalls
\* times in a row.
MaxCalls == 2

\* The call that returned remembered with the ones before it.
Outcome(before, root, r) ==
    LET reported == Range(r.terminated) \cup Range(r.killed)
    IN [calls    |-> before.calls + 1,
        roots    |-> before.roots \cup ({root} \cap reported),
        reported |-> before.reported \cup reported]

\* menu.py lines 128-131 and port_manager.py lines 81-84: the next turn of
\* `for p in targets` / `for c in candidates`: terminate_process_tree is
\* called again, with any pid, after the call before it returned.
NextCall ==
    /\ pc = "done"
    /\ earlier.calls + 1 < MaxCalls
    /\ earlier' = Outcome(earlier, pid, result)
    /\ pid' \in Pids
    /\ pc' = "resolve"
    /\ parent' = NoProc
    /\ children' = <<>>
    /\ all_procs' = <<>>
    /\ i' = 1
    /\ gone' = <<>>
    /\ alive' = <<>>
    /\ result' = EmptyResult
    /\ log' = <<>>
    /\ UNCHANGED <<ppid, running, timeout, unborn, spawned, snapVars, auxVars>>

NextSeq ==
    \/ Next
    \/ NextCall

\* Calls of terminate_process_tree in a row, with no process created.
SpecSeq == Init /\ [][NextSeq]_vars

----------------------------------------------------------------------------
\* fetch_processes_real_time()

TermIdle == UNCHANGED <<ppid, termVars, auxVars>>

\* The pids of the entries of a snapshot.
SnapshotPids(entries) == {entries[k].pid : k \in 1..Len(entries)}

\* lines 46-53: procs = []; the first process_iter starts the CPU sampling of
\* every process it sees (errors swallowed); time.sleep(0.1)
SnapWarm ==
    /\ spc = "warm"
    /\ warmed' = Running
    /\ procs' = <<>>
    /\ spc' = "enumerate"
    /\ UNCHANGED <<running, iter_pids, j, cur, cpu, vanished>>
    /\ TermIdle

\* line 54: the second process_iter takes the pids of the process table
SnapEnumerate ==
    /\ spc = "enumerate"
    /\ iter_pids' = SeqOfSet(Running)
    /\ j' = 1
    /\ spc' = "next"
    /\ UNCHANGED <<running, warmed, cur, cpu, procs, vanished>>
    /\ TermIdle

\* lines 54-59: process_iter yields the next process with its attributes read
\* (p.info); a process that is gone when its attributes are read is skipped by
\* process_iter itself
SnapNext ==
    /\ spc = "next"
    /\ j <= Len(iter_pids)
    /\ IF iter_pids[j] \in Running
       THEN /\ cur' = iter_pids[j]
            /\ spc' = "cpu"
            /\ j' = j
       ELSE /\ cur' = cur
            /\ spc' = "next"
            /\ j' = j + 1
    /\ UNCHANGED <<running, warmed, iter_pids, cpu, procs, vanished>>
    /\ TermIdle

\* What lines 60-63 leave in `cpu`: p.cpu_percent(interval=None), 0.0 on the
\* first sample of a process, and 0.0 when the call raises (`except Exception`).
CpuRead(p) == IF p \in Running /\ p \in warmed THEN 1 ELSE 0

\* What lines 68-71 leave in `threads`: the thread ids, [] when p.threads()
\* raises (`except Exception`).  A live process has its main thread.
ThreadsRead(p) == IF p \in Running THEN <<p>> ELSE <<>>

\* lines 60-63: cpu = p.cpu_percent(interval=None)
SnapCpu ==
    /\ spc = "cpu"
    /\ cpu' = CpuRead(cur)
    /\ spc' = "threads"
    /\ UNCHANGED <<running, warmed, iter_pids, j, cur, procs, vanished>>
    /\ TermIdle

\* lines 64-83: the other fields come from p.info; threads = p.threads();
\* procs.append({...})
SnapThreads ==
    /\ spc = "threads"
    /\ procs' = Append(procs, [pid |-> cur, cpu |-> cpu, threads |-> ThreadsRead(cur)])
    /\ j' = j + 1
    /\ spc' = "next"
    /\ UNCHANGED <<running, warmed, iter_pids, cur, cpu, vanished>>
    /\ TermIdle

\* line 86: return procs
SnapReturn ==
    /\ spc = "next"
    /\ j > Len(iter_pids)
    /\ spc' = "done"
    /\ UNCHANGED <<running, warmed, iter_pids, j, cur, cpu, procs, vanished>>
    /\ TermIdle

\* The environment: a running process exits while the snapshot is taken.
SnapProcessExit ==
    /\ spc \notin {"idle", "done"}
    /\ \E p \in Running \ {0} :
         /\ running' = running \ {p}
         /\ vanished' = IF p \in SnapshotPids(procs) THEN vanished ELSE vanished \cup {p}
    /\ UNCHANGED <<warmed, iter_pids, j, cur, cpu, procs, spc>>
    /\ TermIdle

InitSnap ==
    /\ ppid \in Forests
    /\ running \in {r \in SUBSET Pids : 0 \in r}
    /\ pid = NoProc
    /\ timeout = DefaultTimeout
    /\ pc = "idle"
    /\ parent = NoProc
    /\ children = <<>>
    /\ all_procs = <<>>
    /\ i = 1
    /\ gone = <<>>
    /\ alive = <<>>
    /\ result = EmptyResult
    /\ log = <<>>
    /\ NoSpawnNoEarlier
    /\ spc = "warm"
    /\ warmed = {}
    /\ iter_pids = <<>>
    /\ j = 1
    /\ cur = NoProc
    /\ cpu = 0
    /\ procs = <<>>
    /\ vanished = {}
    /\ AuxIdle

NextSnap ==
    \/ SnapWarm
    \/ SnapEnumerate
    \/ SnapNext
    \/ SnapCpu
    \/ SnapThreads
    \/ SnapReturn
    \/ SnapProcessExit

SpecSnap == InitSnap /\ [][NextSnap]_vars

----------------------------------------------------------------------------
\* The outcome of terminate_process_tree and its history, as the claims read them.

Returned == pc = "done"

RootOutcome == IF log = <<>> THEN "none" ELSE log[1].out

TerminatedPids == Range(result.terminated)

KilledPids == Range(result.killed)

FailedPids == {result.failed[k].pid : k \in 1..Len(result.failed)}

\* The positions of the history at which `op` was called on p.
Calls(op, p) == {k \in 1..Len(log) : log[k].op = op /\ log[k].pid = p}

\* The positions of the history at which a wait ended.
Waits(op) == {k \in 1..Len(log) : log[k].op = op}

\* The waited processes that had exited when the wait `op` ended.
DeadAt(op) == UNION {log[k].dead : k \in Waits(op)}

\* The ancestors of p in the process table.
RECURSIVE Ancestors(_)
Ancestors(p) == IF p = 0 THEN {} ELSE {ppid[p]} \cup Ancestors(ppid[p])

\* The process tree of the root: the root and the processes below it.
TreeOf(root) == {root} \cup {p \in Pids : root \in Ancestors(p)}

\* C1: in every returned outcome the buckets terminated, killed and failed
\* are pairwise disjoint by pid.
C1_BucketsPairwiseDisjoint ==
    Returned =>
        /\ TerminatedPids \cap KilledPids = {}
        /\ TerminatedPids \cap FailedPids = {}
        /\ KilledPids \cap FailedPids = {}

\* C2: after a successful root resolution every pid of the discovered tree
\* (the resolved descendants and the root) is in exactly one of terminated,
\* killed and failed.
C2_EveryDiscoveredPidInExactlyOneBucket ==
    (Returned /\ RootOutcome = "ok") =>
        \A p \in Range(all_procs) :
            Cardinality({b \in {"t", "k", "f"} :
                \/ b = "t" /\ p \in TerminatedPids
                \/ b = "k" /\ p \in KilledPids
                \/ b = "f" /\ p \in FailedPids}) = 1

\* C3: the graceful request to the root is issued only after a graceful
\* request was issued (delivered or not) to every discovered descendant.
C3_DescendantsAskedBeforeRoot ==
    \A k \in Calls("terminate", pid) :
        \A c \in Range(all_procs) \ {pid} :
            \E m \in Calls("terminate", c) : m < k

C3_Witness ==
    /\ Calls("terminate", pid) # {}
    /\ Len(all_procs) >= 2
    /\ \E c \in Range(all_procs) \ {pid} :
         \E m \in Calls("terminate", c) : log[m].out # "ok"

\* C4: a forced signal is sent to a process only after the graceful request
\* was issued to every process and the full primary wait has elapsed (the wait
\* returned, it was not cut short by an error), and never to a process the
\* primary wait reported as gone.
C4_KillOnlyAfterFullPrimaryWait ==
    \A p \in Pids : \A k \in Calls("kill", p) :
        /\ \A q \in Range(all_procs) : \E m \in Calls("terminate", q) : m < k
        /\ \E w \in Waits("wait1") : w < k /\ log[w].out = "ok"
        /\ p \notin Range(gone)

\* C5: a root pid that does not resolve to a live process gives three empty
\* buckets (and nothing is enumerated or signalled).
C5_GoneRootGivesEmptyOutcome ==
    (Returned /\ RootOutcome = "NoSuchProcess") =>
        /\ result = EmptyResult
        /\ Len(log) = 1

C5_Witness == Returned /\ RootOutcome = "NoSuchProcess" /\ pid # 0

AllSignalsDelivered ==
    \A k \in 1..Len(log) : log[k].op \in {"terminate", "kill"} => log[k].out = "ok"

\* C6: when every signal is delivered without error (the claim's trees: every
\* process exits within one of the two waits), a process that exits within
\* the primary wait is in terminated, one that survives it and exits within
\* the secondary wait is in killed, and failed is empty.
C6_DeliveredSignalsGiveNoFailure ==
    (/\ Returned /\ RootOutcome = "ok" /\ AllSignalsDelivered
     /\ Range(all_procs) \subseteq DeadAt("wait1") \cup DeadAt("wait2")) =>
        /\ \A p \in Range(all_procs) :
             /\ p \in DeadAt("wait1") => p \in TerminatedPids
             /\ (p \notin DeadAt("wait1") /\ p \in DeadAt("wait2")) => p \in KilledPids
        /\ result.failed = <<>>

\* The steps of the call.
CallStep ==
    \/ Resolve
    \/ Enumerate
    \/ ResolveChild
    \/ AppendParent
    \/ Terminate
    \/ Wait
    \/ Kill
    \/ Wait2
    \/ Clean

\* The guards of the steps of the call: it is at a position whose step can be
\* taken (in every reachable state this is ENABLED CallStep).
CanStep ==
    \/ pc \in {"resolve", "enumerate", "build", "wait", "wait2", "clean"}
    \/ pc = "terminate" /\ i <= Len(all_procs)
    \/ pc = "kill" /\ i <= Len(alive)

\* C7: the call never raises and never stops short of returning, whatever
\* fails; every discovered process is asked to terminate and every survivor of
\* the primary wait is sent the forced signal, whatever failed before it.
C7_NeverRaisesAndHandlesAll ==
    /\ pc # "raised"
    /\ ~Returned => CanStep
    /\ (Returned /\ RootOutcome = "ok") =>
         /\ \A p \in Range(all_procs) : Calls("terminate", p) # {}
         /\ Waits("wait1") # {}
         /\ \A p \in Range(alive) : Calls("kill", p) # {}
         /\ alive # <<>> => Waits("wait2") # {}

C7_Witness ==
    /\ Returned
    /\ \E k \in 1..Len(log) : \E m \in 1..Len(log) :
         /\ k < m
         /\ log[k].op = "terminate" /\ log[k].out # "ok"
         /\ log[m].op = "terminate"
    /\ \E k \in Waits("wait1") : log[k].out # "ok"
    /\ \E k \in 1..Len(log) : log[k].op = "kill" /\ log[k].out = "AccessDenied"
    /\ \E k \in Waits("wait2") : log[k].out # "ok"

\* C8: every pid reported in a bucket is the root or a descendant of the
\* root found at enumeration.
C8_OnlyTreePidsReported ==
    /\ (TerminatedPids \cup KilledPids \cup FailedPids) \subseteq ({pid} \cup Range(children))
    /\ Range(children) \subseteq TreeOf(pid) \ {pid}

C8_Witness ==
    /\ Returned
    /\ TreeOf(pid) # Pids
    /\ \E c \in Range(children) : c \in TerminatedPids \cup KilledPids \cup FailedPids
    /\ pid \in TerminatedPids \cup KilledPids \cup FailedPids

\* C9: a root resolution that fails with another error than 'does not
\* exist' returns at once: terminated and killed empty, failed holding the one
\* entry of the root pid, nothing enumerated and no signal sent.
C9_InaccessibleRootShortCircuits ==
    (Returned /\ RootOutcome = "AccessDenied") =>
        /\ result.terminated = <<>>
        /\ result.killed = <<>>
        /\ result.failed = <<Failed(pid, "cannot access process")>>
        /\ Len(log) = 1
        /\ children = <<>> /\ all_procs = <<>>

C9_Witness == Returned /\ RootOutcome = "AccessDenied" /\ ChildrenRecursive(pid) # {}

\* C10: a process that exits during the snapshot before its attributes, CPU
\* usage or thread list are read is not in the returned sequence.
C10_VanishedProcessNotInSnapshot ==
    spc = "done" => SnapshotPids(procs) \cap vanished = {}

----------------------------------------------------------------------------
\* Strings.  A str is the sequence of its characters.

\* None where a str is expected: no str equals it (its one element is no
\* character).
NoStr == <<"None">>

\* A value that is no str and not false where a str is expected: it has no
\* lower() (its one element is no character).
NotStr == <<"object">>

UpperCase == <<"A", "B", "C", "D", "E", "F", "G", "H", "I", "J", "K", "L", "M", "N", "O", "P", "Q", "R", "S", "T", "U", "V", "W", "X", "Y", "Z">>

LowerCase == <<"a", "b", "c", "d", "e", "f", "g", "h", "i", "j", "k", "l", "m", "n", "o", "p", "q", "r", "s", "t", "u", "v", "w", "x", "y", "z">>

\* The characters left in the case they were written in.
AsWritten(s) == s

\* str.lower() and str.upper(), character by character.
LowerChar(c) ==
    IF \E k \in 1..Len(UpperCase) : UpperCase[k] = c
    THEN LowerCase[CHOOSE k \in 1..Len(UpperCase) : UpperCase[k] = c]
    ELSE c

UpperChar(c) ==
    IF \E k \in 1..Len(LowerCase) : LowerCase[k] = c
    THEN UpperCase[CHOOSE k \in 1..Len(LowerCase) : LowerCase[k] = c]
    ELSE c

Lower(s) == [k \in 1..Len(s) |-> LowerChar(s[k])]

Upper(s) == [k \in 1..Len(s) |-> UpperChar(s[k])]

\* s.startswith(prefix)
StartsWith(s, prefix) ==
    /\ Len(prefix) <= Len(s)
    /\ SubSeq(s, 1, Len(prefix)) = prefix

\* `sub in s`
Contains(s, sub) ==
    \E k \in 1..(Len(s) - Len(sub) + 1) : SubSeq(s, k, k + Len(sub) - 1) = sub

\* `x or default`: None and "" are false.
OrElse(x, default) == IF x = NoStr \/ x = <<>> THEN default ELSE x

----------------------------------------------------------------------------
\* categorize_process(pid, name, username)

\* The configured list without its last entry.
ThreadTypesWithoutOther == <<"System", "User", "Services", "Background">>

\* config.py lines 12-18
THREAD_TYPES == <<"System", "User", "Services", "Background", "Other">>

\* The literals the rules compare with.
ServiceWord == <<"s", "e", "r", "v", "i", "c", "e">>

SystemOwner == <<"S", "Y", "S", "T", "E", "M">>

AuthorityPrefix == <<"N", "T", " ", "A", "U", "T", "H", "O", "R", "I", "T", "Y">>

\* The rules with the owner looked at before the pid.
OwnerBeforePid(p, name, username) ==
    IF username = NoStr THEN "Background"
    ELSE IF p = 0 THEN "System Idle"
    ELSE IF p = NoProc THEN "TypeError"
    ELSE IF p <= 4 THEN "System"
    ELSE IF name = NotStr THEN "AttributeError"
    ELSE IF \/ Contains(Lower(OrElse(name, <<>>)), ServiceWord)
            \/ Upper(username) = SystemOwner
            \/ StartsWith(Upper(username), AuthorityPrefix)
    THEN "Services"
    ELSE "User"

\* lines 26-37, the body of the try: the category, or the error raised
\* (`None <= 4` is a TypeError, lower() of a value that is no str an
\* AttributeError).
CategoryRules(p, name, username) ==
    IF p = 0 THEN "System Idle"
    ELSE IF p = NoProc THEN "TypeError"
    ELSE IF p <= 4 THEN "System"
    ELSE IF username = NoStr THEN "Background"
    ELSE IF name = NotStr THEN "AttributeError"
    ELSE IF \/ Contains(Lower(OrElse(name, <<>>)), ServiceWord)
            \/ Upper(username) = SystemOwner
            \/ StartsWith(Upper(username), AuthorityPrefix)
    THEN "Services"
    ELSE "User"

\* lines 24-39: the rules; `except Exception: return "Other"`
categorize_process(p, name, username) ==
    LET r == CategoryRules(p, name, username)
    IN IF r \in ExceptException THEN "Other" ELSE r

\* Bound of the model: categorize_process is called with the pids 0..MaxCatPid
\* and with None.
MaxCatPid == 6

CatPids == (0..MaxCatPid) \cup {NoProc}

\* The names and the owners categorize_process is called with.
CatNames == {NoStr,
             NotStr,
             <<>>,
             <<"s", "v", "c", "h", "o", "s", "t">>,
             <<"M", "y", "S", "e", "r", "v", "i", "c", "e">>,
             <<"S", "E", "R", "V", "I", "C", "E", "S">>,
             <<"s", "e", "r", "v", "i", "c">>,
             <<"c", "h", "r", "o", "m", "e">>}

CatUsernames == {NoStr,
                 <<>>,
                 <<"S", "Y", "S", "T", "E", "M">>,
                 <<"s", "y", "s", "t", "e", "m">>,
                 <<"N", "T", " ", "A", "U", "T", "H", "O", "R", "I", "T", "Y", "\\", "L", "S">>,
                 <<"n", "t", " ", "a", "u", "t", "h", "o", "r", "i", "t", "y", "\\", "x">>,
                 <<"N", "T">>,
                 <<"a", "l", "i", "c", "e">>}

\* One call of categorize_process.
Categorize ==
    /\ category = ""
    /\ category' = categorize_process(catPid, catName, catUsername)
    /\ UNCHANGED <<catPid, catName, catUsername>>
    /\ UNCHANGED <<ppid, running, termVars, snapVars, fetchVars, portVars, menuVars, monVars>>

InitCat ==
    /\ ppid = [p \in 1..MaxPid |-> 0]
    /\ running = Pids
    /\ pid = NoProc
    /\ timeout = DefaultTimeout
    /\ pc = "idle"
    /\ parent = NoProc
    /\ children = <<>>
    /\ all_procs = <<>>
    /\ i = 1
    /\ gone = <<>>
    /\ alive = <<>>
    /\ result = EmptyResult
    /\ log = <<>>
    /\ NoSpawnNoEarlier
    /\ SnapIdle
    /\ catPid \in CatPids
    /\ catName \in CatNames
    /\ catUsername \in CatUsernames
    /\ category = ""
    /\ FetchIdle
    /\ PortIdle
    /\ MenuIdle
    /\ MonIdle

NextCat == Categorize

SpecCat == InitCat /\ [][NextCat]_vars

----------------------------------------------------------------------------
\* _fetch_matching_processes(filter_name) of monitor.py

FetchFrame ==
    UNCHANGED <<ppid, termVars, catVars, names, filter_name, portVars, menuVars, monVars>>

\* line 35: the name shown for a process whose name cannot be read
UnknownName == <<"<", "u", "n", "k", "n", "o", "w", "n", ">">>

\* line 35: name = p.info.get('name') or "<unknown>"
ShownName(p) == OrElse(names[p], UnknownName)

\* line 36, negated: the process is kept when the filter is empty or
\* filter_name.lower() is in name.lower()
Matches(f, name) == f = <<>> \/ Contains(Lower(name), Lower(f))

\* lines 25-32: procs = []; the first process_iter starts the CPU sampling
\* (errors swallowed); time.sleep(0.05)
FetchWarm ==
    /\ spc = "warm"
    /\ warmed' = Running
    /\ procs' = <<>>
    /\ spc' = "enumerate"
    /\ UNCHANGED <<running, iter_pids, j, cur, cpu, vanished>>
    /\ FetchFrame

\* line 33: the second process_iter takes the pids of the process table
FetchEnumerate ==
    /\ spc = "enumerate"
    /\ iter_pids' = SeqOfSet(Running)
    /\ j' = 1
    /\ spc' = "next"
    /\ UNCHANGED <<running, warmed, cur, cpu, procs, vanished>>
    /\ FetchFrame

\* lines 33-38: process_iter yields the next process with its attributes read
\* (a process gone by then is skipped by process_iter itself); the filter is
\* applied to the name read
FetchNext ==
    /\ spc = "next"
    /\ j <= Len(iter_pids)
    /\ IF iter_pids[j] \in Running /\ Matches(filter_name, ShownName(iter_pids[j]))
       THEN /\ cur' = iter_pids[j]
            /\ spc' = "cpu"
            /\ j' = j
       ELSE /\ cur' = cur
            /\ spc' = "next"
            /\ j' = j + 1
    /\ UNCHANGED <<running, warmed, iter_pids, cpu, procs, vanished>>
    /\ FetchFrame

\* lines 39-42: cpu = p.cpu_percent(interval=None), 0.0 when it raises
FetchCpu ==
    /\ spc = "cpu"
    /\ cpu' = CpuRead(cur)
    /\ spc' = "threads"
    /\ UNCHANGED <<running, warmed, iter_pids, j, cur, procs, vanished>>
    /\ FetchFrame

\* lines 43-55: thread_count = len(p.threads()), 0 when it raises;
\* procs.append({...})
FetchThreads ==
    /\ spc = "threads"
    /\ procs' = Append(procs, [pid |-> cur, name |-> ShownName(cur),
                               thread_count |-> Len(ThreadsRead(cur)), cpu |-> cpu])
    /\ j' = j + 1
    /\ spc' = "next"
    /\ UNCHANGED <<running, warmed, iter_pids, cur, cpu, vanished>>
    /\ FetchFrame

\* line 58: return procs
FetchReturn ==
    /\ spc = "next"
    /\ j > Len(iter_pids)
    /\ spc' = "done"
    /\ UNCHANGED <<running, warmed, iter_pids, j, cur, cpu, procs, vanished>>
    /\ FetchFrame

\* The environment: a running process exits while the processes are fetched.
FetchProcessExit ==
    /\ spc \notin {"idle", "done"}
    /\ \E p \in Running \ {0} :
         /\ running' = running \ {p}
         /\ vanished' = IF p \in SnapshotPids(procs) THEN vanished ELSE vanished \cup {p}
    /\ UNCHANGED <<warmed, iter_pids, j, cur, cpu, procs, spc>>
    /\ FetchFrame

\* The names of the processes of the table and the filters the monitor is
\* given.
ProcNames == {NoStr, <<"C", "h", "r", "o", "m", "e">>, <<"s", "s", "h">>}

Filters == {<<>>, <<"C", "H", "R">>, <<"k", "n", "o", "w">>, <<"z", "z">>}

InitFetch ==
    /\ ppid = [p \in 1..MaxPid |-> 0]
    /\ running = Pids
    /\ pid = NoProc
    /\ timeout = DefaultTimeout
    /\ pc = "idle"
    /\ parent = NoProc
    /\ children = <<>>
    /\ all_procs = <<>>
    /\ i = 1
    /\ gone = <<>>
    /\ alive = <<>>
    /\ result = EmptyResult
    /\ log = <<>>
    /\ NoSpawnNoEarlier
    /\ spc = "warm"
    /\ warmed = {}
    /\ iter_pids = <<>>
    /\ j = 1
    /\ cur = NoProc
    /\ cpu = 0
    /\ procs = <<>>
    /\ vanished = {}
    /\ CatIdle
    /\ names \in [Pids -> ProcNames]
    /\ filter_name \in Filters
    /\ PortIdle
    /\ MenuIdle
    /\ MonIdle

NextFetch ==
    \/ FetchWarm
    \/ FetchEnumerate
    \/ FetchNext
    \/ FetchCpu
    \/ FetchThreads
    \/ FetchReturn
    \/ FetchProcessExit

SpecFetch == InitFetch /\ [][NextFetch]_vars

----------------------------------------------------------------------------
\* port_manager.py: find_processes_using_port(port) and the connect-probe

\* One connection of psutil.net_connections(kind='inet'): the local address
\* (<<>> when the socket has none, else <<port>>), the status and the owning
\* pid (None when it is not known).
Conn(laddr, status, p) == [laddr |-> laddr, status |-> status, pid |-> p]

\* One core operation invoked, with its arguments (of a lookup by port made
\* on its own: the port and what net_connections did).
CallEvent(op, a, b) == [op |-> op, a |-> a, b |-> b]

\* The owner of any connection, whatever its local port.
OwnsAnyConnection(c, q) == Truthy(c.pid)

\* line 24: conn.laddr and getattr(conn.laddr, 'port', None) == port and conn.pid
UsesPort(c, q) == c.laddr # <<>> /\ c.laddr[1] = q /\ Truthy(c.pid)

\* lines 22-27: the pids of the handles made, in the order of the table;
\* psutil.Process(conn.pid) raises for a pid that is gone, and the connection
\* is skipped (`except Exception: continue`)
RECURSIVE Owners(_, _)
Owners(table, q) ==
    IF table = <<>> THEN <<>>
    ELSE (IF UsesPort(Head(table), q) /\ Head(table).pid \in Running
          THEN <<Head(table).pid>>
          ELSE <<>>) \o Owners(Tail(table), q)

\* lines 18-34: the handles, one per pid (unique[p.pid] = p); nothing when
\* net_connections itself raises (`except Exception: pass`)
find_processes_using_port(table, q, out) ==
    IF out = "ok" THEN DictFromKeys(Owners(table, q))
    ELSE IF out \in ExceptException THEN <<>>
    ELSE <<"raised">>

\* lines 122-125 and 146-149: s.connect_ex(("127.0.0.1", port)) == 0, which
\* is so when a TCP listener accepts on the port
ConnectProbe(table, q) ==
    IF \E k \in 1..Len(table) : table[k].status = "LISTEN" /\ table[k].laddr = <<q>>
    THEN "OCCUPIED"
    ELSE "FREE"

\* The ports of the connection table.
TablePorts == {7, 77}

ConnUniverse ==
    {Conn(l, st, p) : l \in {<<>>} \cup {<<q>> : q \in TablePorts},
                      st \in {"LISTEN", "ESTABLISHED"},
                      p \in Pids \cup {NoProc}}

\* Bound of the model: the connection table holds at most MaxConns connections.
MaxConns == 2

ConnTables == UNION {[1..n -> ConnUniverse] : n \in 0..MaxConns}

PortFrame ==
    UNCHANGED <<ppid, running, termVars, snapVars, catVars, fetchVars, conns, port,
                mpc, typed, range_start, range_end, menu_pid, cand, monVars>>

\* One call of find_processes_using_port(port).
PortFind ==
    /\ mpc = "idle"
    /\ calls = <<>>
    /\ \E out \in {"ok", "AccessDenied"} :
         /\ found' = find_processes_using_port(conns, port, out)
         /\ calls' = Append(calls, CallEvent("find_processes_using_port", port, out))
    /\ probe' = probe
    /\ PortFrame

\* One connect-probe of the port.
PortProbe ==
    /\ mpc = "idle"
    /\ probe = ""
    /\ probe' = ConnectProbe(conns, port)
    /\ UNCHANGED <<found, calls>>
    /\ PortFrame

InitPort ==
    /\ ppid = [p \in 1..MaxPid |-> 0]
    /\ running \in {Pids \ d : d \in {{}} \cup {{p} : p \in 1..MaxPid}}
    /\ pid = NoProc
    /\ timeout = DefaultTimeout
    /\ pc = "idle"
    /\ parent = NoProc
    /\ children = <<>>
    /\ all_procs = <<>>
    /\ i = 1
    /\ gone = <<>>
    /\ alive = <<>>
    /\ result = EmptyResult
    /\ log = <<>>
    /\ NoSpawnNoEarlier
    /\ SnapIdle
    /\ CatIdle
    /\ FetchIdle
    /\ MenuIdle
    /\ MonIdle
    /\ conns \in ConnTables
    /\ port \in TablePorts
    /\ found = <<>>
    /\ probe = ""

NextPort ==
    \/ PortFind
    \/ PortProbe

SpecPort == InitPort /\ [][NextPort]_vars

----------------------------------------------------------------------------
\* What the operator types, and int(s).

Digits == <<"0", "1", "2", "3", "4", "5", "6", "7", "8", "9">>

IsDigit(c) == \E k \in 1..Len(Digits) : Digits[k] = c

DigitValue(c) == (CHOOSE k \in 1..Len(Digits) : Digits[k] = c) - 1

AllDigits(s) == s # <<>> /\ \A k \in 1..Len(s) : IsDigit(s[k])

RECURSIVE DecimalValue(_)
DecimalValue(s) ==
    IF s = <<>> THEN 0
    ELSE 10 * DecimalValue(SubSeq(s, 1, Len(s) - 1)) + DigitValue(s[Len(s)])

\* int(s) of a stripped input: the number, or ValueError (ok is FALSE).
ParseInt(s) ==
    IF AllDigits(s) THEN [ok |-> TRUE, value |-> DecimalValue(s)]
    ELSE IF s # <<>> /\ s[1] = "-" /\ AllDigits(Tail(s))
    THEN [ok |-> TRUE, value |-> 0 - DecimalValue(Tail(s))]
    ELSE [ok |-> FALSE, value |-> 0]

\* Bounds of the model: the operator types at most MaxPortInputLen characters
\* at a port prompt and MaxPidInputLen at a pid prompt.
MaxPortInputLen == 5

MaxPidInputLen == 2

PortChars == {"7", "-", "x"}

PidChars == {"0", "1", "-", "x"}

PortInputs == UNION {[1..n -> PortChars] : n \in 0..MaxPortInputLen}

PidInputs == UNION {[1..n -> PidChars] : n \in 0..MaxPidInputLen}

\* What the operator types at the prompt of the interval.
IntervalInputs == {<<>>, <<"7">>, <<"-">>, <<"x">>}

\* One input of the operator: the prompt and the stripped text.
Typed(prompt, text) == [prompt |-> prompt, text |-> text]

\* What the operator types at a "(y/n)" prompt, and at the prompt of the name
\* fragment.
ConfirmAnswers == {<<"y">>, <<"Y">>, <<"n">>, <<"x">>, <<>>}

FragInputs == {<<>>, <<"c", "h">>}

\* Ctrl+C at a prompt, in the place of a text (its one element is no
\* character).
CtrlC == <<"KeyboardInterrupt">>

\* Any answer that is not empty taken for a yes.
AnyAnswer(answer) == answer # <<>>

\* menu.py lines 98-99 and 124-125, port_manager.py lines 74-75:
\* confirm = input(...).strip().lower(); if confirm != 'y': cancelled
Confirmed(answer) == Lower(answer) = <<"y">>

----------------------------------------------------------------------------
\* menu.py: the flows of the entries 3 (kill by PID), 4 (kill by name),
\* 6 (free a port), 7 (ports in a range) and 8 (real-time ports monitor), with
\* free_port_interactive and show_ports_range of port_manager.py.  The core
\* operations are taken whole: a flow records that it invoked them, and a
\* termination makes processes of the tree exit.

MenuFrame ==
    UNCHANGED <<ppid, termVars, snapVars, catVars, fetchVars, conns, probe, monVars>>

\* port_manager.py line 114: end > 65535
LastPort == 65535

\* What terminate_process_tree(r) can leave of the process table: any of the
\* processes of the tree may have exited.
AfterTermination(r) ==
    IF r \in Running
    THEN {Running \ x : x \in SUBSET (({r} \cup ChildrenRecursive(r)) \ {0})}
    ELSE {Running}

\* menu.py line 41: choice = input("Enter your choice: ")
MenuChoice ==
    /\ mpc = "menu"
    /\ \E choice \in {"3", "4", "6", "7", "8"} :
         mpc' = CASE choice = "3" -> "pid_prompt"
                  [] choice = "4" -> "frag_prompt"
                  [] choice = "6" -> "port_prompt"
                  [] choice = "7" -> "start7"
                  [] choice = "8" -> "start8"
    /\ typed' = <<>>
    /\ calls' = <<>>
    /\ found' = <<>>
    /\ port' = NoProc
    /\ range_start' = NoProc
    /\ range_end' = NoProc
    /\ menu_pid' = NoProc
    /\ cand' = 1
    /\ running' = running
    /\ MenuFrame

\* menu.py lines 86-91: s = input("Enter PID to kill: "); pid = int(s)
KillPidPrompt ==
    /\ mpc = "pid_prompt"
    /\ \E s \in PidInputs :
         /\ typed' = Append(typed, Typed("pid", s))
         /\ IF ParseInt(s).ok
            THEN menu_pid' = ParseInt(s).value /\ mpc' = "lookup"
            ELSE menu_pid' = menu_pid /\ mpc' = "menu"
    /\ UNCHANGED <<running, calls, found, port, range_start, range_end, cand>>
    /\ MenuFrame

\* The outcomes of psutil.Process(pid) with p.name() and p.cmdline() in the
\* menu: a negative pid is a ValueError.
LookupOutcomes(p) ==
    IF p < 0 THEN {"ValueError"}
    ELSE IF p \in Running THEN {"ok", "AccessDenied"}
    ELSE {"NoSuchProcess"}

\* menu.py lines 92-97: p = psutil.Process(pid); print(...); except Exception
KillLookup ==
    /\ mpc = "lookup"
    /\ \E out \in LookupOutcomes(menu_pid) :
         mpc' = IF out = "ok" THEN "confirm_kill"
                ELSE IF out \in ExceptException THEN "menu"
                ELSE "raised"
    /\ UNCHANGED <<running, typed, calls, found, port, range_start, range_end, menu_pid, cand>>
    /\ MenuFrame

\* menu.py lines 98-101: confirm = input(...); if confirm != 'y': continue
KillConfirm ==
    /\ mpc = "confirm_kill"
    /\ \E answer \in ConfirmAnswers :
         /\ typed' = Append(typed, Typed("confirm", answer))
         /\ mpc' = IF Confirmed(answer) THEN "kill_call" ELSE "menu"
    /\ UNCHANGED <<running, calls, found, port, range_start, range_end, menu_pid, cand>>
    /\ MenuFrame

\* menu.py lines 102-108: res = terminate_process_tree(pid, timeout=5)
KillCall ==
    /\ mpc = "kill_call"
    /\ calls' = Append(calls, CallEvent("terminate_process_tree", menu_pid, DefaultTimeout))
    /\ running' \in AfterTermination(menu_pid)
    /\ mpc' = "menu"
    /\ UNCHANGED <<typed, found, port, range_start, range_end, menu_pid, cand>>
    /\ MenuFrame

\* menu.py lines 112-115: frag = input(...).strip(); if not frag: continue
KillNamePrompt ==
    /\ mpc = "frag_prompt"
    /\ \E s \in FragInputs :
         /\ typed' = Append(typed, Typed("frag", s))
         /\ mpc' = IF s = <<>> THEN "menu" ELSE "name_fetch"
    /\ UNCHANGED <<running, calls, found, port, range_start, range_end, menu_pid, cand>>
    /\ MenuFrame

\* What lines 116-117 can give for targets: the entries of the snapshot
\* whose name holds the fragment, which are any of the processes of the
\* table, in the order of process_iter.
TargetLists == {SeqOfSet(S) : S \in SUBSET Pids}

\* menu.py lines 116-123: procs = fetch_processes_real_time(); targets =
\* [...]; if not targets: continue; the targets listed
KillNameFetch ==
    /\ mpc = "name_fetch"
    /\ found' \in TargetLists
    /\ calls' = Append(calls, CallEvent("fetch_processes_real_time", NoProc, NoProc))
    /\ mpc' = IF found' = <<>> THEN "menu" ELSE "confirm_name"
    /\ cand' = 1
    /\ UNCHANGED <<running, typed, port, range_start, range_end, menu_pid>>
    /\ MenuFrame

\* menu.py lines 124-127: confirm = input(...); if confirm != 'y': continue
KillNameConfirm ==
    /\ mpc = "confirm_name"
    /\ \E answer \in ConfirmAnswers :
         /\ typed' = Append(typed, Typed("confirm", answer))
         /\ mpc' = IF Confirmed(answer) THEN "name_loop" ELSE "menu"
    /\ UNCHANGED <<running, calls, found, port, range_start, range_end, menu_pid, cand>>
    /\ MenuFrame

\* menu.py lines 128-138: one turn of `for p in targets`:
\* res = terminate_process_tree(pid, timeout=5)
KillNameTerminate ==
    /\ mpc = "name_loop"
    /\ cand <= Len(found)
    /\ calls' = Append(calls, CallEvent("terminate_process_tree", found[cand], DefaultTimeout))
    /\ running' \in AfterTermination(found[cand])
    /\ cand' = cand + 1
    /\ UNCHANGED <<mpc, typed, found, port, range_start, range_end, menu_pid>>
    /\ MenuFrame

\* menu.py line 128: the loop over the targets is over
KillNameDone ==
    /\ mpc = "name_loop"
    /\ cand > Len(found)
    /\ mpc' = "menu"
    /\ UNCHANGED <<running, typed, calls, found, port, range_start, range_end, menu_pid, cand>>
    /\ MenuFrame

\* Ctrl+C at a "(y/n)" prompt: KeyboardInterrupt leaves the flow and is
\* caught by main_menu (menu.py lines 212-213), which shows the menu again.
ConfirmInterrupt ==
    /\ mpc \in {"confirm_kill", "confirm_name", "confirm_free"}
    /\ typed' = Append(typed, Typed("confirm", CtrlC))
    /\ mpc' = "menu"
    /\ UNCHANGED <<running, calls, found, port, range_start, range_end, menu_pid, cand>>
    /\ MenuFrame

\* port_manager.py lines 44-52: s = input("Enter port to free: "); port = int(s)
FreePortPrompt ==
    /\ mpc = "port_prompt"
    /\ \E s \in PortInputs :
         /\ typed' = Append(typed, Typed("port", s))
         /\ IF s # <<>> /\ ParseInt(s).ok
            THEN port' = ParseInt(s).value /\ mpc' = "find"
            ELSE port' = port /\ mpc' = "menu"
    /\ UNCHANGED <<running, calls, found, range_start, range_end, menu_pid, cand>>
    /\ MenuFrame

\* port_manager.py lines 54-72: procs = find_processes_using_port(port);
\* if not procs: return; the candidates listed (p.name() of lines 70 and 72
\* is inside no handler, and main_menu catches KeyboardInterrupt only)
FreePortFind ==
    /\ mpc = "find"
    /\ \E out \in {"ok", "AccessDenied"} :
       \E listed \in {"ok", "NoSuchProcess", "AccessDenied"} :
         /\ found' = find_processes_using_port(conns, port, out)
         /\ mpc' = IF found' = <<>> THEN "menu"
                   ELSE IF listed = "ok" THEN "confirm_free"
                   ELSE "raised"
    /\ calls' = Append(calls, CallEvent("find_processes_using_port", port, port))
    /\ cand' = 1
    /\ UNCHANGED <<running, typed, port, range_start, range_end, menu_pid>>
    /\ MenuFrame

\* port_manager.py lines 74-80: confirm = input(...); if confirm != 'y': return
FreePortConfirm ==
    /\ mpc = "confirm_free"
    /\ \E answer \in ConfirmAnswers :
         /\ typed' = Append(typed, Typed("confirm", answer))
         /\ mpc' = IF Confirmed(answer) THEN "free_loop" ELSE "menu"
    /\ UNCHANGED <<running, calls, found, port, range_start, range_end, menu_pid, cand>>
    /\ MenuFrame

\* port_manager.py lines 81-94: one turn of `for c in candidates`:
\* res = terminate_process_tree(pid, timeout=5)
FreePortTerminate ==
    /\ mpc = "free_loop"
    /\ cand <= Len(found)
    /\ calls' = Append(calls, CallEvent("terminate_process_tree", found[cand], DefaultTimeout))
    /\ running' \in AfterTermination(found[cand])
    /\ cand' = cand + 1
    /\ UNCHANGED <<mpc, typed, found, port, range_start, range_end, menu_pid>>
    /\ MenuFrame

\* port_manager.py lines 96-104: still = find_processes_using_port(port);
\* save_or_return_menu(...)
FreePortRecheck ==
    /\ mpc = "free_loop"
    /\ cand > Len(found)
    /\ calls' = Append(calls, CallEvent("find_processes_using_port", port, port))
    /\ mpc' = "menu"
    /\ UNCHANGED <<running, typed, found, port, range_start, range_end, menu_pid, cand>>
    /\ MenuFrame

\* port_manager.py line 109: start = int(input("Start port: ").strip())
RangeStart ==
    /\ mpc = "start7"
    /\ \E s \in PortInputs :
         /\ typed' = Append(typed, Typed("start", s))
         /\ IF ParseInt(s).ok
            THEN range_start' = ParseInt(s).value /\ mpc' = "end7"
            ELSE range_start' = range_start /\ mpc' = "menu"
    /\ UNCHANGED <<running, calls, found, port, range_end, menu_pid, cand>>
    /\ MenuFrame

\* port_manager.py lines 110-113: end = int(input("End port: ").strip())
RangeEnd ==
    /\ mpc = "end7"
    /\ \E s \in PortInputs :
         /\ typed' = Append(typed, Typed("end", s))
         /\ IF ParseInt(s).ok
            THEN range_end' = ParseInt(s).value /\ mpc' = "scan"
            ELSE range_end' = range_end /\ mpc' = "menu"
    /\ UNCHANGED <<running, calls, found, port, range_start, menu_pid, cand>>
    /\ MenuFrame

\* port_manager.py lines 114-133: the range check, then the connect-probe of
\* every port of the range; save_or_return_menu(...)
RangeScan ==
    /\ mpc = "scan"
    /\ IF range_start < 1 \/ range_end > LastPort \/ range_start > range_end
       THEN calls' = calls
       ELSE calls' = Append(calls, CallEvent("connect_probe", range_start, range_end))
    /\ mpc' = "menu"
    /\ UNCHANGED <<running, typed, found, port, range_start, range_end, menu_pid, cand>>
    /\ MenuFrame

\* menu.py line 171: start = int(input("Start port: ").strip())
MonitorStart ==
    /\ mpc = "start8"
    /\ \E s \in PortInputs :
         /\ typed' = Append(typed, Typed("start", s))
         /\ IF ParseInt(s).ok
            THEN range_start' = ParseInt(s).value /\ mpc' = "end8"
            ELSE IF "ValueError" \in ExceptException
            THEN range_start' = range_start /\ mpc' = "menu"
            ELSE range_start' = range_start /\ mpc' = "raised"
    /\ UNCHANGED <<running, calls, found, port, range_end, menu_pid, cand>>
    /\ MenuFrame

\* menu.py line 172: end = int(input("End port: ").strip())
MonitorEnd ==
    /\ mpc = "end8"
    /\ \E s \in PortInputs :
         /\ typed' = Append(typed, Typed("end", s))
         /\ IF ParseInt(s).ok
            THEN range_end' = ParseInt(s).value /\ mpc' = "interval8"
            ELSE IF "ValueError" \in ExceptException
            THEN range_end' = range_end /\ mpc' = "menu"
            ELSE range_end' = range_end /\ mpc' = "raised"
    /\ UNCHANGED <<running, calls, found, port, range_start, menu_pid, cand>>
    /\ MenuFrame

\* menu.py lines 173-182: interval = input(...) (5.0 when it is no number);
\* real_time_ports_monitor(start, end, interval), until it is interrupted or
\* raises (both handled)
MonitorCall ==
    /\ mpc = "interval8"
    /\ \E s \in IntervalInputs :
         typed' = Append(typed, Typed("interval", s))
    /\ calls' = Append(calls, CallEvent("real_time_ports_monitor", range_start, range_end))
    /\ mpc' = "menu"
    /\ UNCHANGED <<running, found, port, range_start, range_end, menu_pid, cand>>
    /\ MenuFrame

\* The connection tables of the menu flows: at most one connection, of a
\* process of the table.
MenuTables ==
    {<<>>} \cup {<<Conn(<<q>>, st, p)>> : q \in TablePorts,
                                          st \in {"LISTEN", "ESTABLISHED"},
                                          p \in Pids \ {0}}

InitMenu ==
    /\ ppid = [p \in 1..MaxPid |-> p - 1]
    /\ running = Pids
    /\ pid = NoProc
    /\ timeout = DefaultTimeout
    /\ pc = "idle"
    /\ parent = NoProc
    /\ children = <<>>
    /\ all_procs = <<>>
    /\ i = 1
    /\ gone = <<>>
    /\ alive = <<>>
    /\ result = EmptyResult
    /\ log = <<>>
    /\ NoSpawnNoEarlier
    /\ SnapIdle
    /\ CatIdle
    /\ FetchIdle
    /\ conns \in MenuTables
    /\ port = NoProc
    /\ found = <<>>
    /\ probe = ""
    /\ mpc = "menu"
    /\ typed = <<>>
    /\ calls = <<>>
    /\ range_start = NoProc
    /\ range_end = NoProc
    /\ menu_pid = NoProc
    /\ cand = 1
    /\ MonIdle

NextMenu ==
    \/ MenuChoice
    \/ KillPidPrompt
    \/ KillLookup
    \/ KillConfirm
    \/ KillCall
    \/ KillNamePrompt
    \/ KillNameFetch
    \/ KillNameConfirm
    \/ KillNameTerminate
    \/ KillNameDone
    \/ ConfirmInterrupt
    \/ FreePortPrompt
    \/ FreePortFind
    \/ FreePortConfirm
    \/ FreePortTerminate
    \/ FreePortRecheck
    \/ RangeStart
    \/ RangeEnd
    \/ RangeScan
    \/ MonitorStart
    \/ MonitorEnd
    \/ MonitorCall

SpecMenu == InitMenu /\ [][NextMenu]_vars

----------------------------------------------------------------------------
\* The monitoring loops: monitor_threads_by_process_name of monitor.py and
\* real_time_ports_monitor of port_manager.py.  The loops block at their
\* prompts and sleeps; an interrupt (Ctrl+C) delivered there raises
\* KeyboardInterrupt at that point.

MonFrame ==
    UNCHANGED <<ppid, running, termVars, snapVars, catVars, names, conns, found,
                menuVars>>

\* The handler written `except Exception` instead.
ExceptOrdinaryErrors == ExceptException

\* `except KeyboardInterrupt` (monitor.py line 188, port_manager.py line 157)
ExceptKeyboardInterrupt == {"KeyboardInterrupt"}

\* One handler around a point of the code: what it catches and where the
\* loop goes on from when it does.
Handler(catches, to) == [catches |-> catches, to |-> to]

\* Where an exception raised below the handlers (innermost first) ends:
\* at the first handler that catches it, else it leaves the loop unhandled.
RECURSIVE Propagate(_, _)
Propagate(handlers, exc) ==
    IF handlers = <<>> THEN "raised"
    ELSE IF exc \in Head(handlers).catches THEN Head(handlers).to
    ELSE Propagate(Tail(handlers), exc)

\* The handlers around the points at which the thread monitor blocks: the
\* prompt of the page size is inside `try: ... except Exception` (lines
\* 145-153), and everything is inside the try of lines 114-190.
ThreadMonitorHandlers(at) ==
    IF at = "size"
    THEN <<Handler(ExceptException, "fetch"), Handler(ExceptKeyboardInterrupt, "returned")>>
    ELSE <<Handler(ExceptKeyboardInterrupt, "returned")>>

\* The handlers around the points at which the ports monitor blocks: the try
\* of lines 140-158.
PortMonitorHandlers == <<Handler(ExceptKeyboardInterrupt, "returned")>>

\* The points at which the loops block: the sleep of the snapshot
\* (monitor.py line 32, inside line 119), the prompts (lines 129, 141, 146,
\* 163/170, 179, 185), the pauses (lines 173, 176), and the connect-probe and
\* the sleep of the ports monitor (port_manager.py lines 148, 156).
ThreadMonitorPoints ==
    {"fetch", "cmd", "filter", "size", "drill_return", "pause_nomatch", "pause_unknown",
     "cmd_empty", "filter_empty"}

PortMonitorPoints == {"probe", "sleep"}

\* The commands the operator types at the prompts of the thread monitor, and
\* the page sizes.
Commands == {<<>>, <<"q">>, <<"Q">>, <<"n">>, <<"N">>, <<"p">>, <<"P">>, <<"r">>, <<"s">>,
             <<"1">>, <<"2">>, <<"9">>, <<"x">>}

SizeInputs == {<<>>, <<"0">>, <<"1">>, <<"2">>, <<"-", "1">>, <<"x">>}

\* What _fetch_matching_processes can return: the pids of any processes of
\* the table, in any order (the sort of line 123 included).
RowLists ==
    {r \in UNION {[1..n -> Pids] : n \in 0..Cardinality(Pids)} :
        \A a \in 1..Len(r) : \A b \in 1..Len(r) : r[a] = r[b] => a = b}

\* One page more than the full pages.
OnePageMore(n, size) == (n \div size) + 1

\* line 124: total_pages = max(1, (len(procs) + page_size - 1) // page_size)
TotalPages(n, size) ==
    LET q == (n + size - 1) \div size
    IN IF q > 1 THEN q ELSE 1

\* lines 116-127: clear_screen(); header; procs = _fetch_matching_processes(
\* current_filter); the sort, total_pages, the page brought back in range and
\* the table printed when there are processes
MonFetch ==
    /\ lpc = "fetch"
    /\ \E r \in RowLists :
         /\ rows' = r
         /\ IF r = <<>>
            THEN /\ lpc' = "cmd_empty"
                 /\ UNCHANGED <<total_pages, current_page>>
            ELSE /\ total_pages' = TotalPages(Len(r), page_size)
                 /\ current_page' = IF current_page >= total_pages' THEN 0 ELSE current_page
                 /\ lpc' = "cmd"
    /\ accepted' = <<>>
    /\ UNCHANGED <<page_size, interrupted, filter_name, port, probe, range_start, range_end>>
    /\ MonFrame

\* lines 129-176: cmd = input("Command: ").strip() and its dispatch
MonCommand ==
    /\ lpc = "cmd"
    /\ \E cmd \in Commands :
         /\ lpc' = IF cmd = <<>> THEN "fetch"
                   ELSE IF Lower(cmd) = <<"q">> THEN "returned"
                   ELSE IF Lower(cmd) \in {<<"n">>, <<"p">>} THEN "fetch"
                   ELSE IF Lower(cmd) = <<"r">> THEN "filter"
                   ELSE IF Lower(cmd) = <<"s">> THEN "size"
                   ELSE IF AllDigits(cmd)
                   THEN (IF \/ \E k \in 1..Len(rows) : rows[k] = ParseInt(cmd).value
                            \/ ParseInt(cmd).value \in 1..Len(rows)
                         THEN "drill"
                         ELSE "pause_nomatch")
                   ELSE "pause_unknown"
         /\ accepted' = Append(accepted, cmd)
         /\ current_page' = IF Lower(cmd) = <<"n">> THEN (current_page + 1) % total_pages
                            ELSE IF Lower(cmd) = <<"p">> THEN (current_page - 1) % total_pages
                            ELSE current_page
    /\ UNCHANGED <<page_size, total_pages, rows, interrupted, filter_name, port, probe,
                   range_start, range_end>>
    /\ MonFrame

\* lines 140-143: current_filter = input(...).strip(); current_page = 0
MonFilter ==
    /\ lpc = "filter"
    /\ filter_name' \in Filters
    /\ current_page' = 0
    /\ lpc' = "fetch"
    /\ UNCHANGED <<page_size, total_pages, rows, interrupted, accepted, port, probe, range_start, range_end>>
    /\ MonFrame

\* lines 144-154: newsize = int(input(...).strip()); a positive one is taken
MonPageSize ==
    /\ lpc = "size"
    /\ \E s \in SizeInputs :
         IF ParseInt(s).ok /\ ParseInt(s).value > 0
         THEN page_size' = ParseInt(s).value /\ current_page' = 0
         ELSE UNCHANGED <<page_size, current_page>>
    /\ lpc' = "fetch"
    /\ UNCHANGED <<total_pages, rows, interrupted, accepted, filter_name, port, probe, range_start, range_end>>
    /\ MonFrame

\* lines 161-162 and 168-169 with lines 70-97: clear_screen();
\* _show_threads_of_pid(pid): psutil.Process(pid) and p.threads() are inside
\* handlers, p.name() of line 86 is not
MonDrill ==
    /\ lpc = "drill"
    /\ \E resolved \in {"ok", "NoSuchProcess", "AccessDenied"} :
       \E threads \in {"ok", "NoSuchProcess", "AccessDenied"} :
       \E named \in {"ok", "NoSuchProcess", "AccessDenied"} :
         lpc' = IF resolved # "ok"
                THEN Propagate(<<Handler(ExceptNoSuchProcess, "drill_return"),
                                 Handler(ExceptException, "drill_return")>>, resolved)
                ELSE IF threads # "ok"
                THEN Propagate(<<Handler(ExceptException, "drill_return")>>, threads)
                ELSE IF named # "ok"
                THEN Propagate(ThreadMonitorHandlers("drill"), named)
                ELSE "drill_return"
    /\ UNCHANGED <<current_page, page_size, total_pages, rows, interrupted, accepted, filter_name,
                   port, probe, range_start, range_end>>
    /\ MonFrame

\* lines 163-164 and 170-171: input("\nPress Enter to return to monitor...")
MonDrillReturn ==
    /\ lpc = "drill_return"
    /\ lpc' = "fetch"
    /\ UNCHANGED <<current_page, page_size, total_pages, rows, interrupted, accepted, filter_name,
                   port, probe, range_start, range_end>>
    /\ MonFrame

\* lines 172-174: print_error(...); time.sleep(1.0); continue
MonPauseNoMatch ==
    /\ lpc = "pause_nomatch"
    /\ lpc' = "fetch"
    /\ UNCHANGED <<current_page, page_size, total_pages, rows, interrupted, accepted, filter_name,
                   port, probe, range_start, range_end>>
    /\ MonFrame

\* lines 175-178: print_error("Unknown command."); time.sleep(0.6); the
\* controls of the empty list are printed next
MonPauseUnknown ==
    /\ lpc = "pause_unknown"
    /\ lpc' = "cmd_empty"
    /\ UNCHANGED <<current_page, page_size, total_pages, rows, interrupted, accepted, filter_name,
                   port, probe, range_start, range_end>>
    /\ MonFrame

\* lines 178-187: cmd = input("Command: ").strip() of the empty list
MonCommandEmpty ==
    /\ lpc = "cmd_empty"
    /\ \E cmd \in Commands :
         /\ lpc' = IF cmd = <<>> THEN "fetch"
                   ELSE IF Lower(cmd) = <<"q">> THEN "returned"
                   ELSE IF Lower(cmd) = <<"r">> THEN "filter_empty"
                   ELSE "fetch"
         /\ accepted' = Append(accepted, cmd)
    /\ UNCHANGED <<current_page, page_size, total_pages, rows, interrupted, filter_name,
                   port, probe, range_start, range_end>>
    /\ MonFrame

\* lines 184-187: current_filter = input(...).strip(); current_page = 0
MonFilterEmpty ==
    /\ lpc = "filter_empty"
    /\ filter_name' \in Filters
    /\ current_page' = 0
    /\ lpc' = "fetch"
    /\ UNCHANGED <<page_size, total_pages, rows, interrupted, accepted, port, probe, range_start, range_end>>
    /\ MonFrame

\* An interrupt while the thread monitor blocks.
MonInterrupt ==
    /\ lpc \in ThreadMonitorPoints
    /\ interrupted' = lpc
    /\ lpc' = Propagate(ThreadMonitorHandlers(lpc), "KeyboardInterrupt")
    /\ UNCHANGED <<current_page, page_size, total_pages, rows, accepted, filter_name, port, probe,
                   range_start, range_end>>
    /\ MonFrame

\* port_manager.py lines 145-154: one turn of `for port in range(start,
\* end+1)`: the connect-probe of the port
PortMonProbe ==
    /\ lpc = "probe"
    /\ probe' = ConnectProbe(conns, port)
    /\ port' = port + 1
    /\ lpc' = IF port = range_end THEN "sleep" ELSE "probe"
    /\ UNCHANGED <<current_page, page_size, total_pages, rows, interrupted, accepted, filter_name,
                   range_start, range_end>>
    /\ MonFrame

\* port_manager.py lines 155-156 and 141-144: time.sleep(interval); the next
\* round
PortMonSleep ==
    /\ lpc = "sleep"
    /\ port' = range_start
    /\ lpc' = "probe"
    /\ UNCHANGED <<current_page, page_size, total_pages, rows, interrupted, accepted, filter_name,
                   probe, range_start, range_end>>
    /\ MonFrame

\* An interrupt while the ports monitor blocks.
PortMonInterrupt ==
    /\ lpc \in PortMonitorPoints
    /\ interrupted' = lpc
    /\ lpc' = Propagate(PortMonitorHandlers, "KeyboardInterrupt")
    /\ UNCHANGED <<current_page, page_size, total_pages, rows, accepted, filter_name, port, probe,
                   range_start, range_end>>
    /\ MonFrame

\* Either loop is entered: the thread monitor with a filter, or the ports
\* monitor with a range of ports.
InitMon ==
    /\ ppid = [p \in 1..MaxPid |-> 0]
    /\ running = Pids
    /\ pid = NoProc
    /\ timeout = DefaultTimeout
    /\ pc = "idle"
    /\ parent = NoProc
    /\ children = <<>>
    /\ all_procs = <<>>
    /\ i = 1
    /\ gone = <<>>
    /\ alive = <<>>
    /\ result = EmptyResult
    /\ log = <<>>
    /\ NoSpawnNoEarlier
    /\ SnapIdle
    /\ CatIdle
    /\ names = [p \in Pids |-> <<>>]
    /\ found = <<>>
    /\ probe = ""
    /\ current_page = 0
    /\ page_size = DefaultPageSize
    /\ total_pages = 1
    /\ rows = <<>>
    /\ interrupted = ""
    /\ accepted = <<>>
    /\ \/ /\ lpc = "fetch"
          /\ filter_name \in Filters
          /\ conns = <<>>
          /\ port = NoProc
          /\ range_start = NoProc
          /\ range_end = NoProc
       \/ /\ lpc = "probe"
          /\ filter_name = <<>>
          /\ conns \in MenuTables
          /\ range_start \in TablePorts
          /\ range_end \in {range_start, range_start + 1}
          /\ port = range_start
    /\ mpc = "idle"
    /\ typed = <<>>
    /\ calls = <<>>
    /\ menu_pid = NoProc
    /\ cand = 1

NextMon ==
    \/ MonFetch
    \/ MonCommand
    \/ MonFilter
    \/ MonPageSize
    \/ MonDrill
    \/ MonDrillReturn
    \/ MonPauseNoMatch
    \/ MonPauseUnknown
    \/ MonCommandEmpty
    \/ MonFilterEmpty
    \/ MonInterrupt
    \/ PortMonProbe
    \/ PortMonSleep
    \/ PortMonInterrupt

SpecMon == InitMon /\ [][NextMon]_vars

----------------------------------------------------------------------------
\* The categories, as the claims read them.

Categorized == category # ""

C12_PidRangeRulesOutrank ==
    Categorized =>
        /\ catPid = 0 => category = "System Idle"
        /\ catPid \in 1..4 => category = "System"

C12_Witness ==
    /\ Categorized
    /\ catPid = 4
    /\ catUsername = NoStr
    /\ Contains(Lower(OrElse(catName, <<>>)), ServiceWord)
    /\ category = "System"

\* C21: for every pid greater than 4 the rules apply in order, the first match
\* winning: a missing owner gives Background whatever the name is; otherwise
\* a name with "service" in it in any letter case, or the owner SYSTEM or one
\* starting with NT AUTHORITY in any letter case, gives Services; otherwise
\* User; and an error raised while the rules are evaluated gives Other.
MentionsService(name) ==
    /\ name \notin {NoStr, NotStr}
    /\ \E k \in 0..(Len(name) - Len(ServiceWord)) :
           \A at \in 1..Len(ServiceWord) :
               name[k + at] \in {ServiceWord[at], UpperChar(ServiceWord[at])}

PrivilegedOwner(username) ==
    \/ Len(username) = Len(SystemOwner)
       /\ \A at \in 1..Len(SystemOwner) :
              username[at] \in {SystemOwner[at], LowerChar(SystemOwner[at])}
    \/ Len(username) >= Len(AuthorityPrefix)
       /\ \A at \in 1..Len(AuthorityPrefix) :
              username[at] \in {AuthorityPrefix[at], LowerChar(AuthorityPrefix[at])}

C21_RulesInOrderAboveFour ==
    (Categorized /\ catPid > 4) =>
        category =
            IF catUsername = NoStr THEN "Background"
            ELSE IF catName = NotStr THEN "Other"
            ELSE IF MentionsService(catName) \/ PrivilegedOwner(catUsername)
            THEN "Services"
            ELSE "User"

C21_Witness ==
    /\ Categorized
    /\ catPid > 4
    /\ catUsername # NoStr
    /\ ~PrivilegedOwner(catUsername)
    /\ catName = <<"M", "y", "S", "e", "r", "v", "i", "c", "e">>
    /\ category = "Services"

----------------------------------------------------------------------------
\* The phases of terminate_process_tree, as the claims read them.

\* The graceful phase is over and the lists are not yet cleaned.
GracefulPhaseOver == pc \in {"wait", "kill", "wait2", "clean"}

\* The entries of failed with the pid p and the reason msg.
FailedEntries(p, msg) == {k \in 1..Len(result.failed) : result.failed[k] = Failed(p, msg)}

\* The calls of `op` on p that ended with an error.
FailedCalls(op, p) == {k \in Calls(op, p) : log[k].out # "ok"}

\* C17: in the graceful phase the request is attempted for every process of
\* the ordered set, also after a request to an earlier one failed; every
\* failed delivery has put an entry for that pid in failed; and the primary
\* wait is handed every process, those whose request failed included.
C17_GracefulPhaseAttemptsAndWaitsAll ==
    /\ GracefulPhaseOver =>
         \A p \in Range(all_procs) :
            /\ Cardinality(Calls("terminate", p)) = 1
            /\ Cardinality(FailedEntries(p, "terminate error")) = Cardinality(FailedCalls("terminate", p))
    /\ \A w \in Waits("wait1") :
         /\ log[w].waited = all_procs
         /\ \A p \in Range(all_procs) : FailedCalls("terminate", p) # {} => p \in Range(log[w].waited)

C17_Witness ==
    /\ Waits("wait1") # {}
    /\ Len(all_procs) >= 2
    /\ FailedCalls("terminate", all_procs[1]) # {}
    /\ Calls("terminate", all_procs[2]) # {}
    /\ all_procs[1] \in Range(log[CHOOSE w \in Waits("wait1") : TRUE].waited)

\* The processes whose forced signal found them no longer existing.
VanishedAtKillPids == {p \in Pids : \E k \in Calls("kill", p) : log[k].out = "NoSuchProcess"}

\* C18: a process that survived the primary wait and reports 'no longer
\* exists' when the forced signal is sent is in terminated and not in killed
\* in the returned outcome, also when the secondary wait returns it as gone.
C18_VanishedAtKillIsTerminated ==
    Returned =>
        \A p \in VanishedAtKillPids : p \in TerminatedPids /\ p \notin KilledPids

C18_Witness ==
    /\ Returned
    /\ \E p \in VanishedAtKillPids :
         /\ p \in Range(alive)
         /\ \E w \in Waits("wait2") : log[w].out = "ok" /\ p \in log[w].dead

\* The survivors of the primary wait still alive when the secondary wait ended.
AliveAfterSecondaryWait == {p \in Range(alive) : \E w \in Waits("wait2") : p \notin log[w].dead}

\* The survivors of the primary wait that existed when the forced signal was
\* sent and had exited when the secondary wait ended.
ExitedInSecondaryWait ==
    {p \in Range(alive) \ VanishedAtKillPids : \E w \in Waits("wait2") : p \in log[w].dead}

\* C19: in the returned outcome every process still alive at the end of the
\* secondary wait is in failed with the still-alive reason and in neither
\* terminated nor killed, and every survivor of the primary wait that exits
\* within the secondary wait is in killed.
C19_SecondaryWaitOutcome ==
    Returned =>
        /\ \A p \in AliveAfterSecondaryWait :
             /\ FailedEntries(p, "still alive after kill") # {}
             /\ p \notin TerminatedPids \cup KilledPids
        /\ \A p \in ExitedInSecondaryWait : p \in KilledPids

\* C20: for every primary timeout the secondary wait is bounded by a shorter
\* timeout, 3/5 of the primary one.
C20_SecondaryTimeoutShorter ==
    \A w \in Waits("wait2") :
        /\ log[w].timeout < timeout
        /\ 5 * log[w].timeout = 3 * timeout

\* A wait of the call raised, so that its fallback ran.
WaitFellBack(op) == \E k \in Waits(op) : log[k].out # "ok"

\* C25: when terminate_process_tree returns, no pid of its terminated and
\* killed lists is a running process, whether the waits went through or
\* raised and their fallbacks ran.
C25_ReportedPidsAreGone ==
    Returned => (TerminatedPids \cup KilledPids) \cap Running = {}

C25_Witness ==
    /\ Returned
    /\ WaitFellBack("wait1") /\ WaitFellBack("wait2")
    /\ KilledPids # {}
    /\ TerminatedPids # {}

\* The processes a graceful or a forced request was sent to (delivered or
\* not), and the processes handed to a wait.
Signalled == {log[k].pid : k \in {m \in 1..Len(log) : log[m].op \in {"terminate", "kill"}}}

WaitedFor == UNION {Range(log[k].waited) : k \in 1..Len(log)}

\* The processes found when the children of the root were enumerated.
Discovered == IF parent = NoProc THEN {} ELSE Range(children) \cup {parent}

\* C27: terminate_process_tree signals the processes it discovered when it
\* enumerated the tree and no others: every request goes to a discovered
\* process, every process it resolved is sent the graceful request, and a
\* process created after the enumeration (by a member of the tree or not) is
\* sent no request, is waited for by no wait and is in none of the three
\* lists.
C27_OnlyDiscoveredAreSignalled ==
    /\ Signalled \subseteq Discovered
    /\ Range(all_procs) \subseteq Discovered
    /\ pc \in {"wait", "kill", "wait2", "clean", "done"} => Range(all_procs) \subseteq Signalled
    /\ spawned \cap (Signalled \cup WaitedFor \cup TerminatedPids \cup KilledPids \cup FailedPids) = {}

C27_Witness ==
    /\ Returned
    /\ \E p \in spawned :
         /\ ppid[p] \in TerminatedPids \cup KilledPids
         /\ p \in Running

\* An earlier call had the root of the running call as its root and reported
\* it as terminated or killed.
RootReportedBefore == pid \in earlier.roots

ReportedBefore == earlier.reported

\* C28: a call of terminate_process_tree whose root an earlier call with the
\* same root reported as terminated or killed sends no request and returns
\* three empty lists; and no pid that an earlier call of a sequence reported
\* as terminated or killed is reported as terminated or killed again.
C28_SecondCallFindsNothing ==
    /\ RootReportedBefore =>
          /\ Signalled = {}
          /\ WaitedFor = {}
          /\ result = EmptyResult
          /\ pc \in {"resolve", "done"}
    /\ (TerminatedPids \cup KilledPids) \cap ReportedBefore = {}

C28_Witness ==
    /\ Returned
    /\ RootReportedBefore
    /\ result = EmptyResult
    /\ Cardinality(ReportedBefore) = 2

----------------------------------------------------------------------------
\* The filtered snapshot, as the claims read it.

\* The live processes whose name contains the filter.
LiveMatching == {p \in Running : Matches(filter_name, ShownName(p))}

\* C16: the filtered snapshot returns exactly the live processes whose name
\* contains the filter substring case-insensitively, all of them when the
\* filter is empty: every returned entry matches the filter and is no process
\* that exited before its entry was built, every live matching process is
\* returned, and the sequence is empty when no process matches.
C16_FilteredSnapshotExact ==
    spc = "done" =>
        /\ \A k \in 1..Len(procs) : Matches(filter_name, procs[k].name)
        /\ SnapshotPids(procs) \cap vanished = {}
        /\ LiveMatching \subseteq SnapshotPids(procs)
        /\ LiveMatching = {} => procs = <<>>

----------------------------------------------------------------------------
\* The port functions, as the claims read them.

\* find_processes_using_port was called.
Looked == \E k \in 1..Len(calls) : calls[k].op = "find_processes_using_port"

\* The pids that own a connection of the table whose local port is q and
\* that is not listening.
NonListeningOwners(q) ==
    {conns[k].pid : k \in {m \in 1..Len(conns) :
        conns[m].laddr = <<q>> /\ conns[m].status # "LISTEN"}}

Scanned == \E k \in 1..Len(calls) :
    calls[k].op = "find_processes_using_port" /\ calls[k].b = "ok"

\* The pids that own a connection of the table whose local port is q, that
\* are neither 0 nor unknown, and that psutil.Process resolves.
ResolvableOwners(q) ==
    {conns[k].pid : k \in {m \in 1..Len(conns) :
        /\ conns[m].laddr = <<q>>
        /\ conns[m].pid \notin {0, NoProc}
        /\ conns[m].pid \in running}}

\* C22: find_processes_using_port(port) returns one handle per pid, and
\* exactly for the pids that own a connection the scan lists whose local port
\* is the target and whose owner is nonzero and resolvable; a connection
\* whose owner does not resolve is skipped and the call still returns (and a
\* scan that fails as a whole gives an empty list).
C22_OneHandlePerResolvableOwner ==
    (mpc = "idle" /\ Looked) =>
        /\ Scanned => Range(found) = ResolvableOwners(port)
        /\ \A a, b \in 1..Len(found) : found[a] = found[b] => a = b
        /\ ~Scanned => found = <<>>

C22_Witness ==
    /\ mpc = "idle" /\ Looked /\ Scanned
    /\ Len(conns) = 2
    /\ conns[1].laddr = <<port>> /\ conns[1].pid \notin running
    /\ conns[2].laddr = <<port>> /\ conns[2].pid \in running \ {0}
    /\ found = <<conns[2].pid>>

----------------------------------------------------------------------------
\* The menu flows, as the claims read them.

ValidPort(q) == q \in 1..LastPort

\* terminate_process_tree was invoked in the flow.
TerminationRequested ==
    \E k \in 1..Len(calls) : calls[k].op = "terminate_process_tree"

\* What the operator did at the confirmation prompt of the flow.
Answers == {typed[k].text : k \in {m \in 1..Len(typed) : typed[m].prompt = "confirm"}}

SaidYes == Answers \cap {<<"y">>, <<"Y">>} # {}

\* C26: in the flows kill by PID, kill by name and free a port,
\* terminate_process_tree is invoked (and so a process signalled, or made to
\* exit) only after the operator answered the confirmation prompt with y;
\* after any other answer, or Ctrl+C at the prompt, the flow is over with no
\* invocation, and before the answer there is none either.
C26_NoTerminationWithoutYes ==
    /\ TerminationRequested => SaidYes
    /\ ~SaidYes => mpc \notin {"kill_call", "name_loop", "free_loop"}
    /\ Answers \ {<<"y">>, <<"Y">>} # {} => mpc = "menu" /\ ~TerminationRequested

C26_Witness ==
    /\ mpc = "name_loop"
    /\ Len(found) = 2
    /\ cand = 3
    /\ SaidYes
    /\ running # Pids

\* The operator typed something that is no number where a pid or a port was
\* asked for.
TypedNonNumeric ==
    \E k \in 1..Len(typed) :
        /\ typed[k].prompt \in {"pid", "port", "start", "end"}
        /\ ~ParseInt(typed[k].text).ok

\* C13: no core operation is invoked with invalid operator input: in every
\* menu flow a non-numeric pid or port stops the flow before any core
\* operation, and the connect-probe, the lookup by port and the real-time
\* ports monitor are invoked only with ports in 1..65535.
C13_NoCoreCallWithInvalidInput ==
    /\ TypedNonNumeric => calls = <<>>
    /\ \A k \in 1..Len(calls) :
         /\ calls[k].op \in {"connect_probe", "real_time_ports_monitor"} =>
              ValidPort(calls[k].a) /\ ValidPort(calls[k].b)
         /\ calls[k].op = "find_processes_using_port" => ValidPort(calls[k].a)

----------------------------------------------------------------------------
\* The monitoring loops, as the claims read them.

\* C15: an interrupt delivered at any point at which a monitoring loop blocks
\* (the command prompts, the prompts of the filter and of the page size, the
\* prompt that ends a drill-down, the pauses after an error message, the
\* snapshot's sleep, the connect-probe and the sleep of the ports monitor)
\* makes the loop return to its caller: it is never left unhandled and never
\* swallowed.
C15_InterruptReturnsToCaller ==
    interrupted # "" => lpc = "returned"

C15_Witness ==
    /\ interrupted = "size"
    /\ lpc = "returned"

\* C23: a process that vanishes at any point of a thread drill-down (before
\* psutil.Process resolves it, before its threads are read, or before its
\* name is read for the header) is reported, and the loop goes on to the
\* prompt that returns to the monitor: no exception leaves the loop.
C23_DrillDownNeverEscapes ==
    [][lpc = "drill" => lpc' = "drill_return"]_vars

\* C24: every snapshot-and-render of the thread monitor is followed by one
\* command typed at a "Command: " prompt, and no more than one, before the
\* next snapshot is taken, whatever the command is.
C24_OneCommandPerTick ==
    /\ Len(accepted) <= 1
    /\ lpc \in {"filter", "size", "drill", "drill_return", "pause_nomatch",
                "pause_unknown", "filter_empty"} => Len(accepted) = 1

\* The table of the tick is on the screen: the page current_page of rows.
Rendered == lpc = "cmd"

\* The step in which the command cmd (in either letter case) is taken at the
\* prompt under the table.
Takes(cmd) == lpc = "cmd" /\ accepted' = Append(accepted, cmd)

\* C29: whatever the commands before and however the number of matching
\* processes changed, a table is rendered with a positive page size and a
\* page index in 0..total_pages-1 (so that the page holds a row); n and p
\* move the page by one modulo total_pages; a new filter, and a new page
\* size, bring the page back to 0.
C29_PageStaysInRange ==
    /\ [](Rendered =>
            /\ page_size > 0
            /\ 0 <= current_page /\ current_page < total_pages
            /\ current_page * page_size < Len(rows))
    /\ [][/\ (Takes(<<"n">>) \/ Takes(<<"N">>)) =>
              current_page' = IF current_page = total_pages - 1 THEN 0 ELSE current_page + 1
          /\ (Takes(<<"p">>) \/ Takes(<<"P">>)) =>
              current_page' = IF current_page = 0 THEN total_pages - 1 ELSE current_page - 1
          /\ (lpc \in {"filter", "filter_empty"} /\ lpc' = "fetch") => current_page' = 0
          /\ (lpc = "size" /\ page_size' # page_size) => current_page' = 0 /\ page_size' > 0
         ]_vars

C29_Witness ==
    /\ lpc = "fetch"
    /\ accepted = <<<<"p">>>>
    /\ page_size = 1
    /\ total_pages = Len(rows)
    /\ total_pages > 2
    /\ current_page = total_pages - 1

====
